---- MODULE Spec2Model ----
(***************************************************************************)
(* A model of the container-image runner of src/app/main.go: one run of    *)
(* main(), from os.MkdirTemp to the process exit, with the registry, the   *)
(* file system, the tar command and the child process as the environment.  *)
(***************************************************************************)
EXTENDS Integers, Sequences, FiniteSets, TLC

\* ------------------------------------------------------------------ bounds
MaxLayers == 2

\* ------------------------------------------------------------ environment
Blobs == {"L1", "L2"}
Tokens == {"t1", "t2"}
Commands == {"/bin/x", "/usr/z"}
Root == "/tmp/root"
StatusTemporaryRedirect == 307
TokenStatuses == {200, 401}
ManifestStatuses == {200, 404}
BlobStatuses == {200, StatusTemporaryRedirect, 404}
ExitStatuses == {0, 1, 137}
Signals == {9}

AllBits == {"ur", "uw", "ux", "gr", "gw", "gx", "or", "ow", "ox"}
Mode0755 == AllBits \ {"gw", "ow"}
Mode0775 == AllBits \ {"ow"}
Mode0644 == {"ur", "uw", "gr", "or"}
HostModes == {Mode0755, Mode0775}
Umasks == {{}, {"gw", "ow"}}

RECURSIVE SeqsUpTo(_, _)
SeqsUpTo(S, n) ==
  IF n = 0 THEN {<<>>}
  ELSE LET shorter == SeqsUpTo(S, n - 1)
       IN shorter \cup {Append(s, x) : s \in shorter, x \in S}

Manifests == SeqsUpTo(Blobs, MaxLayers)

\* The files a layer archive holds: path inside the archive |-> content.
\* A file's content is named after the layer it comes from.
BlobFiles(b) ==
  IF b = "L1" THEN {"/bin/x", "/bin/x.old"} ELSE {"/bin/x", "/dev/null"}

LayerPaths == UNION {BlobFiles(b) : b \in Blobs}
RelPaths == Commands \cup {c \o ".old" : c \in Commands} \cup LayerPaths
              \cup {"/dev/null", "dev/null"}
Dirs == {"", Root}
FsPaths == [dir : Dirs, path : RelPaths]

NoFile == [kind |-> "none", data |-> "", mode |-> {}]
File(data, mode) == [kind |-> "file", data |-> data, mode |-> mode]
HostData == "host-executable"

\* path.Join(dir, p) for an absolute p: with dir = "" the result is p itself.
Join(dir, p) == [dir |-> dir, path |-> p]
\* path.Join(dir, "dev", "null"): relative to the working directory if dir = "".
DevNullPath(dir) ==
  IF dir = "" THEN [dir |-> "", path |-> "dev/null"]
  ELSE [dir |-> dir, path |-> "/dev/null"]

TarballName(b) == b \o ".tar"
Absent == "<absent>"
\* The two hosts a layer is asked of: the registry's blob endpoint and the
\* storage location a redirect names.
Hosts == {"registry", "storage"}
RedirectBody(host) == "<redirect notice of the " \o host \o ">"
ErrorBody(host) == "<error document of the " \o host \o ">"

\* A JSON body as json.Unmarshal sees it: fields that are missing keep their
\* zero value, a body that is not JSON makes Unmarshal fail.
JsonBody(token, layers) == [json |-> TRUE, token |-> token, fsLayers |-> layers]
Malformed == [json |-> FALSE, token |-> "", fsLayers |-> <<>>]
ErrorJson == JsonBody("", <<>>)

\* An HTTP exchange as the caller sees it: err is a transport failure of
\* http.Get / Client.Do, readErr a failure of io.ReadAll on the body.
Reply(err, readErr, status, body) ==
  [err |-> err, readErr |-> readErr, status |-> status, body |-> body]

TokenReplies ==
  {Reply(TRUE, FALSE, 0, Malformed), Reply(FALSE, TRUE, 200, Malformed)}
    \cup {Reply(FALSE, FALSE, 200, JsonBody(t, <<>>)) : t \in Tokens}
    \cup {Reply(FALSE, FALSE, s, b) : s \in TokenStatuses, b \in {ErrorJson, Malformed}}

ManifestReplies ==
  {Reply(TRUE, FALSE, 0, Malformed), Reply(FALSE, TRUE, 200, Malformed)}
    \cup {Reply(FALSE, FALSE, 200, JsonBody("", m)) : m \in Manifests}
    \cup {Reply(FALSE, FALSE, s, b) : s \in ManifestStatuses, b \in {ErrorJson, Malformed}}

\* The body a blob endpoint sends with each status: the layer archive with
\* 200, a redirect notice with 307, an error document otherwise.
BlobBody(host, status, b) ==
  IF status = 200 THEN b
  ELSE IF status = StatusTemporaryRedirect THEN RedirectBody(host)
  ELSE ErrorBody(host)

BlobReplies(host, b) ==
  {Reply(TRUE, FALSE, 0, ""), Reply(FALSE, TRUE, 200, "")}
    \cup {Reply(FALSE, FALSE, s, BlobBody(host, s, b)) : s \in BlobStatuses}

NoReply == Reply(FALSE, FALSE, 0, "")
NoJsonReply == Reply(FALSE, FALSE, 0, Malformed)

\* ------------------------------------------------------------------ state
VARIABLES
  pc,         \* the statement main() is at
  command,    \* os.Args[3]
  chrootDir,  \* the result of os.MkdirTemp
  mkdirErr,   \* whether os.MkdirTemp failed
  token,      \* the result of getBearerToken
  tokenReply, \* what the token endpoint answered
  manifest,   \* manifest.FsLayers as blob sums
  manifestReply, \* what the manifest endpoint answered
  idx,        \* the range index of extractImage, from 1
  res,        \* fetchLayer: the response the code holds in res
  blobRes,    \* fetchLayer: what the blob endpoint answered (the first hop)
  data,       \* fetchLayer: the bytes read from the response body
  tmp,        \* the working directory's tarballs: name |-> bytes
  fs,         \* the files of the host and of the sandbox root
  umask,      \* the process's file mode creation mask
  root,       \* the process's file system root ("/" until Chroot)
  child,      \* the child process: none, running, exited, signaled
  childStatus, \* the child's exit status or signal
  exitCode,   \* the exit code of the tool, -1 while it runs
  log         \* the external calls made so far, in order

vars == <<pc, command, chrootDir, mkdirErr, token, tokenReply, manifest,
          manifestReply, idx, res, blobRes, data, tmp, fs, umask, root, child,
          childStatus, exitCode, log>>

\* A call: what was called, for which layer (0: none), its argument (the
\* bearer token of a request, the bytes of a write, the path of a file
\* operation), whether the caller got no error, and for the requests of a
\* layer the status and body of the answer.
Event(op, i, s, ok) ==
  [op |-> op, idx |-> i, s |-> s, ok |-> ok, status |-> 0, body |-> ""]
HttpEvent(op, i, tok, r) ==
  [op |-> op, idx |-> i, s |-> tok, ok |-> ~r.err, status |-> r.status,
   body |-> r.body]
Logged(e) == log' = Append(log, e)

Init ==
  /\ pc = "MkdirTemp"
  /\ command \in Commands
  /\ chrootDir = ""
  /\ mkdirErr = FALSE
  /\ token = ""
  /\ tokenReply = NoJsonReply
  /\ manifest = <<>>
  /\ manifestReply = NoJsonReply
  /\ idx = 0
  /\ res = NoReply
  /\ blobRes = NoReply
  /\ data = ""
  /\ tmp = [n \in {TarballName(b) : b \in Blobs} |-> Absent]
  /\ \E m \in HostModes :
       fs = [p \in FsPaths |->
               IF p.dir = "" /\ p.path \in Commands THEN File(HostData, m)
               ELSE NoFile]
  /\ umask \in Umasks
  /\ root = "/"
  /\ child = "none"
  /\ childStatus = 0
  /\ exitCode = -1
  /\ log = <<>>

\* os.Exit(code), and the return from main (code 0): the exit status the
\* caller of the tool sees is the low byte of the code.
ProcessExit(code) == code % 256
Exit(code) == pc' = "exited" /\ exitCode' = ProcessExit(code)
Goto(label) == pc' = label /\ exitCode' = exitCode

\* main, line 38: the error of os.MkdirTemp is overwritten by line 40 before
\* anything reads it.
MkdirTemp ==
  /\ pc = "MkdirTemp"
  /\ \E ok \in BOOLEAN :
       /\ chrootDir' = IF ok THEN Root ELSE ""
       /\ mkdirErr' = ~ok
       /\ Logged(Event("MkdirTemp", 0, "", ok))
  /\ Goto("getBearerToken")
  /\ UNCHANGED <<command, token, tokenReply, manifest, manifestReply, idx, res,
                 blobRes, data, tmp, fs, umask, root, child, childStatus>>

\* getBearerToken: the response's status code is not looked at.
getBearerToken(r) ==
  IF r.err THEN [token |-> "", err |-> TRUE]
  ELSE IF r.readErr THEN [token |-> "", err |-> TRUE]
  ELSE IF ~r.body.json THEN [token |-> "", err |-> TRUE]
  ELSE [token |-> r.body.token, err |-> FALSE]

GetBearerToken ==
  /\ pc = "getBearerToken"
  /\ \E r \in TokenReplies :
       LET out == getBearerToken(r) IN
       /\ tokenReply' = r
       /\ token' = out.token
       /\ Logged(Event("TokenRequest", 0, "", ~out.err))
       /\ IF out.err THEN Exit(1) ELSE Goto("fetchManifest")
  /\ UNCHANGED <<command, chrootDir, mkdirErr, manifest, manifestReply, idx, res,
                 blobRes, data, tmp, fs, umask, root, child, childStatus>>

\* fetchManifest: the response's status code is not looked at either.
fetchManifest(r) ==
  IF r.err THEN [manifest |-> <<>>, err |-> TRUE]
  ELSE IF r.readErr THEN [manifest |-> <<>>, err |-> TRUE]
  ELSE IF ~r.body.json THEN [manifest |-> <<>>, err |-> TRUE]
  ELSE [manifest |-> r.body.fsLayers, err |-> FALSE]

\* A variant that returns before the first layer.
extractImageReturnsAtOnce(i, m) == "copyExecutableIntoDir"

\* A variant whose loop ends one layer early.
extractImageSkipsLast(i, m) ==
  IF i < Len(m) THEN "fetchLayer" ELSE "copyExecutableIntoDir"

\* extractImage's range loop: the next layer, or the return to main.
extractImageNext(i, m) ==
  IF i <= Len(m) THEN "fetchLayer" ELSE "copyExecutableIntoDir"

FetchManifest ==
  /\ pc = "fetchManifest"
  /\ \E r \in ManifestReplies :
       LET out == fetchManifest(r) IN
       /\ manifestReply' = r
       /\ manifest' = out.manifest
       /\ Logged(Event("ManifestRequest", 0, token, ~out.err))
       /\ IF out.err THEN Exit(1) /\ idx' = idx
          ELSE Goto(extractImageNext(1, out.manifest)) /\ idx' = 1
  /\ UNCHANGED <<command, chrootDir, mkdirErr, token, tokenReply, res, blobRes,
                 data, tmp, fs, umask, root, child, childStatus>>

\* ---------------------------------------------------------------- fetchLayer
\* Lines 195-205: the authenticated GET of the blob. A transport failure
\* returns the error, which extractImage and main turn into exit code 1.
\* A variant that goes on with the next layer after an error.
AbortLayerContinues(i, m) == [next |-> extractImageNext(i + 1, m), idx |-> i + 1]

\* A variant that asks for the failed layer again.
AbortLayerRetries(i, m) == [next |-> "fetchLayer", idx |-> i]

\* Lines 186-188 and 52-55: extractImage returns the error of fetchLayer at
\* once and main exits with code 1.
AbortLayer(i, m) == [next |-> "exited", idx |-> i]

Aborted ==
  LET a == AbortLayer(idx, manifest) IN
  /\ idx' = a.idx
  /\ IF a.next = "exited" THEN Exit(1) ELSE Goto(a.next)

\* A variant that takes every answer as final content.
IsRedirectNever(r) == FALSE

\* Line 207: only status 307 is taken as a redirect.
IsRedirect(r) == r.status = StatusTemporaryRedirect

FetchLayerRequest ==
  /\ pc = "fetchLayer"
  /\ \E r \in BlobReplies("registry", manifest[idx]) :
       /\ res' = r
       /\ blobRes' = r
       /\ Logged(HttpEvent("BlobRequest", idx, token, r))
       /\ IF r.err THEN Aborted
          ELSE IF IsRedirect(r) THEN Goto("fetchLayerRedirect") /\ idx' = idx
          ELSE Goto("fetchLayerWrite") /\ idx' = idx
  /\ UNCHANGED <<command, chrootDir, mkdirErr, token, tokenReply, manifest,
                 manifestReply, data, tmp, fs, umask, root, child, childStatus>>

\* Lines 207-220: the second GET, to the Location of a 307 answer; its
\* response replaces res.
FetchLayerRedirect ==
  /\ pc = "fetchLayerRedirect"
  /\ \E r \in BlobReplies("storage", manifest[idx]) :
       /\ res' = r
       /\ Logged(HttpEvent("RedirectRequest", idx, token, r))
       /\ IF r.err THEN Aborted ELSE Goto("fetchLayerWrite") /\ idx' = idx
  /\ UNCHANGED <<command, chrootDir, mkdirErr, token, tokenReply, manifest,
                 manifestReply, blobRes, data, tmp, fs, umask, root, child,
                 childStatus>>

\* Lines 222-230: io.ReadAll of res.Body, then os.WriteFile of the tarball.
\* A failing WriteFile may leave nothing or a truncated file behind; the
\* deferred os.Remove is not registered yet when it fails.
Truncated == "<truncated>"
FetchLayerWrite ==
  /\ pc = "fetchLayerWrite"
  /\ LET tarball == TarballName(manifest[idx]) IN
     \/ /\ res.readErr
        /\ Aborted
        /\ Logged(Event("ReadAll", idx, "", FALSE))
        /\ UNCHANGED <<data, tmp>>
     \/ /\ ~res.readErr
        /\ data' = res.body
        /\ tmp' = [tmp EXCEPT ![tarball] = res.body]
        /\ Logged(Event("WriteFile", idx, res.body, TRUE))
        /\ Goto("fetchLayerTar")
        /\ idx' = idx
     \/ /\ ~res.readErr
        /\ data' = res.body
        /\ \E left \in {tmp[tarball], Truncated} : tmp' = [tmp EXCEPT ![tarball] = left]
        /\ Logged(Event("WriteFile", idx, res.body, FALSE))
        /\ Aborted
  /\ UNCHANGED <<command, chrootDir, mkdirErr, token, tokenReply, manifest,
                 manifestReply, res, blobRes, fs, umask, root, child, childStatus>>

\* A variant that keeps a file that is already there (tar's k flag).
ExtractKeepsOldFiles(files, dest, archive, written) ==
  [p \in FsPaths |->
     IF p.dir = dest /\ p.path \in written /\ files[p].kind = "none"
     THEN File(archive, Mode0755)
     ELSE files[p]]

\* What "tar xpf tarball -C dest" leaves in the file system when it unpacks
\* the paths in written: each becomes the archive's file, replacing whatever
\* was at that path.
Extract(files, dest, archive, written) ==
  [p \in FsPaths |->
     IF p.dir = dest /\ p.path \in written THEN File(archive, Mode0755)
     ELSE files[p]]

\* The bytes are a tar archive only if they are a layer's blob; there is no
\* directory "" to change to when os.MkdirTemp failed.
TarCanRun(bytes, dest) == bytes \in Blobs /\ dest # ""

\* A variant without the deferred removal.
RemoveTarballNever(files, name) == files

\* Line 231: the deferred os.Remove of the tarball.
RemoveTarball(files, name) == [files EXCEPT ![name] = Absent]

\* Lines 231-237: tar runs on the tarball, then the deferred os.Remove runs,
\* then the error of tar, if any, is returned.
FetchLayerTar ==
  /\ pc = "fetchLayerTar"
  /\ LET tarball == TarballName(manifest[idx])
         bytes == tmp[tarball] IN
     /\ tmp' = RemoveTarball(tmp, tarball)
     /\ \/ /\ TarCanRun(bytes, chrootDir)
           /\ fs' = Extract(fs, chrootDir, bytes, BlobFiles(bytes))
           /\ log' = log \o <<Event("Tar", idx, tarball, TRUE),
                                Event("Remove", idx, tarball, TRUE)>>
           /\ idx' = idx + 1
           /\ Goto(extractImageNext(idx + 1, manifest))
        \/ /\ \E written \in SUBSET (IF TarCanRun(bytes, chrootDir)
                                       THEN BlobFiles(bytes) ELSE {}) :
                fs' = Extract(fs, chrootDir, bytes, written)
           /\ log' = log \o <<Event("Tar", idx, tarball, FALSE),
                                Event("Remove", idx, tarball, TRUE)>>
           /\ Aborted
  /\ UNCHANGED <<command, chrootDir, mkdirErr, token, tokenReply, manifest,
                 manifestReply, res, blobRes, data, umask, root, child, childStatus>>

\* --------------------------------------------------------------- prepareRoot
CopyFailures ==
  {"none", "MkdirAll", "StatSrc", "OpenSrc", "StatDst", "Rename", "OpenDst", "Copy"}

OldPath(p) == [dir |-> p.dir, path |-> p.path \o ".old"]

\* A variant that writes over the file that is there instead of renaming it.
CopyFileOverwrites(files, src, dst, mask, failAt) ==
  LET source == files[src]
      opened == IF files[dst].kind = "none"
                THEN [files EXCEPT ![dst] = File("", source.mode \ mask)]
                ELSE files
  IN IF failAt \in {"StatSrc", "OpenSrc", "StatDst", "OpenDst"} \/ source.kind = "none"
       THEN [fs |-> files, err |-> TRUE]
     ELSE IF failAt = "Copy"
       THEN [fs |-> [opened EXCEPT ![dst].data = Truncated], err |-> TRUE]
     ELSE [fs |-> [opened EXCEPT ![dst].data = source.data], err |-> FALSE]

\* CopyFile(src, dst) with the step failAt failing, if that step is reached:
\* the file system it leaves and whether it returns an error.
CopyFile(files, src, dst, mask, failAt) ==
  LET source == files[src]
      exists == files[dst].kind # "none"
      renamed == IF exists
                 THEN [files EXCEPT ![OldPath(dst)] = files[dst], ![dst] = NoFile]
                 ELSE files
      \* O_RDWR|O_CREATE with the source's mode: a new file gets the mode less
      \* the umask, an existing file is opened as it is.
      opened == IF renamed[dst].kind = "none"
                THEN [renamed EXCEPT ![dst] = File("", source.mode \ mask)]
                ELSE renamed
  IN IF failAt = "StatSrc" \/ source.kind = "none" THEN [fs |-> files, err |-> TRUE]
     ELSE IF failAt = "OpenSrc" THEN [fs |-> files, err |-> TRUE]
     ELSE IF failAt = "StatDst" THEN [fs |-> files, err |-> TRUE]
     ELSE IF exists /\ failAt = "Rename" THEN [fs |-> files, err |-> TRUE]
     ELSE IF failAt = "OpenDst" THEN [fs |-> renamed, err |-> TRUE]
     ELSE IF failAt = "Copy"
       THEN [fs |-> [opened EXCEPT ![dst].data = Truncated], err |-> TRUE]
     ELSE [fs |-> [opened EXCEPT ![dst].data = source.data], err |-> FALSE]

\* A variant that drops the error CopyFile returns.
copyExecutableIntoDirDropsError(files, dir, executablePath, mask, failAt) ==
  [fs |-> CopyFile(files, Join("", executablePath), Join(dir, executablePath),
                   mask, failAt).fs,
   err |-> FALSE]

copyExecutableIntoDir(files, dir, executablePath, mask, failAt) ==
  IF failAt = "MkdirAll" THEN [fs |-> files, err |-> TRUE]
  ELSE CopyFile(files, Join("", executablePath), Join(dir, executablePath),
                mask, failAt)

CopyExecutableIntoDir ==
  /\ pc = "copyExecutableIntoDir"
  /\ \E failAt \in CopyFailures :
       LET out == copyExecutableIntoDir(fs, chrootDir, command, umask, failAt) IN
       /\ fs' = out.fs
       /\ Logged(Event("CopyFile", 0, command, ~out.err))
       /\ IF out.err THEN Exit(1) ELSE Goto("createDevNull")
  /\ UNCHANGED <<command, chrootDir, mkdirErr, token, tokenReply, manifest,
                 manifestReply, idx, res, blobRes, data, tmp, umask, root, child,
                 childStatus>>

DevNullFailures == {"none", "MkdirAll", "WriteFile"}

\* os.WriteFile(dev/null, []byte{}, 0644): O_WRONLY|O_CREATE|O_TRUNC.
createDevNull(files, dir, mask, failAt) ==
  LET p == DevNullPath(dir) IN
  IF failAt # "none" THEN [fs |-> files, err |-> TRUE]
  ELSE IF files[p].kind = "none"
    THEN [fs |-> [files EXCEPT ![p] = File("", Mode0644 \ mask)], err |-> FALSE]
  ELSE [fs |-> [files EXCEPT ![p].data = ""], err |-> FALSE]

CreateDevNull ==
  /\ pc = "createDevNull"
  /\ \E failAt \in DevNullFailures :
       LET out == createDevNull(fs, chrootDir, umask, failAt) IN
       /\ fs' = out.fs
       /\ Logged(Event("DevNull", 0, "", ~out.err))
       /\ IF out.err THEN Exit(1) ELSE Goto("Chroot")
  /\ UNCHANGED <<command, chrootDir, mkdirErr, token, tokenReply, manifest,
                 manifestReply, idx, res, blobRes, data, tmp, umask, root, child,
                 childStatus>>

\* ------------------------------------------------------- activate and launch
\* syscall.Chroot: there is no directory "" to make the root.
Chroot ==
  /\ pc = "Chroot"
  /\ \E ok \in (IF chrootDir = "" THEN {FALSE} ELSE BOOLEAN) :
       /\ root' = IF ok THEN chrootDir ELSE root
       /\ Logged(Event("Chroot", 0, chrootDir, ok))
       /\ IF ok THEN Goto("Run") ELSE Exit(1)
  /\ UNCHANGED <<command, chrootDir, mkdirErr, token, tokenReply, manifest,
                 manifestReply, idx, res, blobRes, data, tmp, fs, umask, child,
                 childStatus>>

\* cmd.Run, first half: the child is started in a new PID namespace, or
\* Run returns an error that is no *exec.ExitError.
StartChild ==
  /\ pc = "Run"
  /\ \E ok \in BOOLEAN :
       /\ child' = IF ok THEN "running" ELSE child
       /\ Logged(Event("Start", 0, command, ok))
       /\ IF ok THEN Goto("Wait") ELSE Exit(1)
  /\ UNCHANGED <<command, chrootDir, mkdirErr, token, tokenReply, manifest,
                 manifestReply, idx, res, blobRes, data, tmp, fs, umask, root,
                 childStatus>>

\* The child ends by itself, with an exit status or killed by a signal.
ChildTerminates ==
  /\ child = "running"
  /\ \/ \E s \in ExitStatuses : child' = "exited" /\ childStatus' = s
     \/ \E s \in Signals : child' = "signaled" /\ childStatus' = s
  /\ UNCHANGED <<pc, command, chrootDir, mkdirErr, token, tokenReply, manifest,
                 manifestReply, idx, res, blobRes, data, tmp, fs, umask, root,
                 exitCode, log>>

\* (*exec.ExitError).ExitCode(): the exit status, or -1 for a child that a
\* signal ended.
ExitCode(state, status) == IF state = "exited" THEN status ELSE -1

\* A variant that reports every failing child as exit code 1.
RunResultCollapsed(state, status) ==
  IF state = "exited" /\ status = 0 THEN 0 ELSE 1

\* Lines 79-87: Run returns nil for exit status 0 and main returns; otherwise
\* the error is an *exec.ExitError and its code is passed to os.Exit.
RunResult(state, status) ==
  IF state = "exited" /\ status = 0 THEN 0 ELSE ExitCode(state, status)

\* A variant that does not wait for the child (cmd.Start in place of cmd.Run).
ChildDoneNoWait(state) == state # "none"

\* Line 79: cmd.Run returns only once the child has ended.
ChildDone(state) == state \in {"exited", "signaled"}

Wait ==
  /\ pc = "Wait"
  /\ ChildDone(child)
  /\ Exit(RunResult(child, childStatus))
  /\ Logged(Event("Wait", childStatus, child, TRUE))
  /\ UNCHANGED <<command, chrootDir, mkdirErr, token, tokenReply, manifest,
                 manifestReply, idx, res, blobRes, data, tmp, fs, umask, root,
                 child, childStatus>>

Next ==
  \/ MkdirTemp
  \/ GetBearerToken
  \/ FetchManifest
  \/ FetchLayerRequest
  \/ FetchLayerRedirect
  \/ FetchLayerWrite
  \/ FetchLayerTar
  \/ CopyExecutableIntoDir
  \/ CreateDevNull
  \/ Chroot
  \/ StartChild
  \/ ChildTerminates
  \/ Wait

Spec == Init /\ [][Next]_vars

\* Every external call returns and the child ends: no call of the run blocks
\* for ever.
LiveSpec == Spec /\ WF_vars(Next)

\* ===================================================================== claims
Exited == pc = "exited"
Positions == 1..Len(log)
Occurs(op) == \E j \in Positions : log[j].op = op
Activated == root # "/"

\* C1: whenever the child was started and ended with exit status s (0 or
\* not), the exit code of the tool is exactly s.
C1_ExitCodeTransparency ==
  (Exited /\ child = "exited") => exitCode = childStatus

C1_Witness == Exited /\ child = "exited" /\ childStatus = 137 /\ exitCode = 137

\* C2: a stage that fails (the creation of the sandbox root directory
\* included) is the last stage of the run, and the run ends with exit code 1.
\* The removal of a layer's tarball on the way out is no stage.
C2_FailureStopsPipeline ==
  \A j \in Positions :
    ~log[j].ok =>
      /\ \A k \in Positions : k > j => log[k].op = "Remove"
      /\ Exited /\ exitCode = 1

\* C3: the root is activated only after every layer of the manifest was
\* extracted, the executable copied and dev/null created, all without error:
\* the calls were made and succeeded, nothing before the activation failed,
\* and the files are in the root.
LayersExtracted ==
  \A i \in 1..Len(manifest) :
    /\ \E j \in Positions : log[j].op = "Tar" /\ log[j].idx = i /\ log[j].ok
    /\ \A p \in BlobFiles(manifest[i]) : fs[Join(root, p)].kind = "file"

ExecutableCopied ==
  /\ \E j \in Positions : log[j].op = "CopyFile" /\ log[j].ok
  /\ fs[Join(root, command)].kind = "file"
  /\ fs[Join(root, command)].data = HostData

DevNullCreated ==
  /\ \E j \in Positions : log[j].op = "DevNull" /\ log[j].ok
  /\ fs[DevNullPath(root)].kind = "file"
  /\ fs[DevNullPath(root)].data = ""

C3_ActivationAfterPreparation ==
  Activated =>
    /\ LayersExtracted
    /\ ExecutableCopied
    /\ DevNullCreated
    /\ \A j \in Positions :
         log[j].op = "Chroot" => \A k \in 1..j : log[k].ok

C3_Witness == Activated /\ Len(manifest) = 2 /\ manifest[1] # manifest[2]

\* C4: a token endpoint that answers with a transport failure, a status
\* other than success or a malformed body makes the run end with exit code 1
\* before any manifest request.
TokenReplyFailed ==
  \/ tokenReply.err
  \/ tokenReply.readErr
  \/ tokenReply.status # 200
  \/ ~tokenReply.body.json

C4_TokenFailureStops ==
  (Occurs("TokenRequest") /\ TokenReplyFailed) =>
    /\ Exited /\ exitCode = 1
    /\ ~Occurs("ManifestRequest")

\* C5: the extractions are of the manifest's layers in the listed order, one
\* each; a layer is asked for only after the extraction of the one before it;
\* a materialization that returns without error has made exactly N of them;
\* and an extracted tarball is gone from the working directory (until a later
\* layer of the same blob sum writes that name again).
TarEvents == SelectSeq(log, LAMBDA e : e.op = "Tar")
Materialized == pc = "copyExecutableIntoDir" \/ Occurs("CopyFile")

C5_ExtractionInManifestOrder ==
  /\ \A k \in 1..Len(TarEvents) :
       /\ k <= Len(manifest)
       /\ TarEvents[k].idx = k
       /\ TarEvents[k].s = TarballName(manifest[k])
  /\ Materialized => Len(TarEvents) = Len(manifest)
  /\ \A j \in Positions :
       (log[j].op = "BlobRequest" /\ log[j].idx > 1) =>
         \E k \in 1..(j - 1) :
           log[k].op = "Tar" /\ log[k].idx = log[j].idx - 1 /\ log[k].ok
  /\ \A j \in Positions :
       log[j].op = "Tar" =>
         \/ tmp[log[j].s] = Absent
         \/ \E k \in (j + 1)..Len(log) :
              log[k].op = "WriteFile" /\ TarballName(manifest[log[k].idx]) = log[j].s

C5_Witness ==
  /\ pc = "copyExecutableIntoDir"
  /\ Len(manifest) = 2
  /\ Len(TarEvents) = 2
  /\ \A n \in DOMAIN tmp : tmp[n] = Absent

\* C6: after a materialization that succeeded, every path some layer holds
\* has in the sandbox root the content of the last layer, in manifest order,
\* that holds it.
LayersWith(p) == {i \in 1..Len(manifest) : p \in BlobFiles(manifest[i])}
LastLayerWith(p) == CHOOSE i \in LayersWith(p) : \A k \in LayersWith(p) : k <= i

C6_LaterLayerWins ==
  pc = "copyExecutableIntoDir" =>
    \A p \in LayerPaths :
      LayersWith(p) # {} =>
        /\ fs[Join(chrootDir, p)].kind = "file"
        /\ fs[Join(chrootDir, p)].data = manifest[LastLayerWith(p)]

C6_Witness ==
  /\ pc = "copyExecutableIntoDir"
  /\ manifest = <<"L1", "L2">>
  /\ fs[Join(chrootDir, "/bin/x")].data = "L2"

\* C7: when the blob request of a layer is answered with a redirect (307),
\* what is written to the tarball is the body the redirect's target returned,
\* asked for with the same bearer token, and never the body of the blob
\* request's own answer; the tarball that tar then reads holds those bytes.
BlobRequestOf(j) ==
  CHOOSE k \in 1..(j - 1) : log[k].op = "BlobRequest" /\ log[k].idx = log[j].idx

ManifestReplyFailed ==
  \/ manifestReply.err
  \/ manifestReply.readErr
  \/ manifestReply.status # 200
  \/ ~manifestReply.body.json

C8_ManifestFailureStops ==
  (Occurs("ManifestRequest") /\ ManifestReplyFailed) =>
    /\ Exited /\ exitCode = 1
    /\ ~Occurs("BlobRequest")
    /\ ~Activated

\* C9: every authenticated call comes after the token request, in a run in
\* which the token endpoint issued a token, and carries that token.
AuthenticatedCalls == {"ManifestRequest", "BlobRequest", "RedirectRequest"}
TokenObtained == Occurs("TokenRequest") /\ tokenReply.body.token \in Tokens

C9_CallsCarryObtainedToken ==
  \A j \in Positions :
    log[j].op \in AuthenticatedCalls =>
      /\ \E k \in 1..(j - 1) : log[k].op = "TokenRequest"
      /\ TokenObtained
      /\ log[j].s = tokenReply.body.token

\* C10: once the root is prepared, it holds at the command's path a file
\* with the host executable's content and permission bits, and at dev/null
\* an empty file, whatever the layers put there.
C10_RootPrepared ==
  (pc = "Chroot" /\ ~mkdirErr) =>
    /\ fs[Join(chrootDir, command)].kind = "file"
    /\ fs[Join(chrootDir, command)].data = fs[Join("", command)].data
    /\ fs[Join(chrootDir, command)].mode = fs[Join("", command)].mode
    /\ fs[DevNullPath(chrootDir)].kind = "file"
    /\ fs[DevNullPath(chrootDir)].data = ""

\* C11: while the child runs the parent is blocked in cmd.Run: it makes no
\* call, changes nothing and does not exit; it exits only after the child
\* has ended, and the exit status is read in that last step.
ParentState == <<pc, chrootDir, token, manifest, idx, res, tmp, fs, root, exitCode, log>>

C11_ParentBlocksOnChild ==
  /\ [](child = "running" => (pc = "Wait" /\ exitCode = -1))
  /\ []((Exited /\ child # "none") =>
          /\ ChildDone(child)
          /\ log[Len(log)].op = "Wait"
          /\ log[Len(log) - 1].op = "Start")
  /\ [][child = "running" => ParentState' = ParentState]_vars
  /\ [][(child # "none" /\ pc # pc') => (ChildDone(child) /\ pc' = "exited")]_vars

C11_Witness ==
  /\ Exited
  /\ child = "signaled"
  /\ log[Len(log)].op = "Wait"

\* C12: a layer whose fetch or extraction fails ends the materialization and
\* the run: nothing is asked for or extracted after it, the layer is not
\* asked for again, and the files the layers before it wrote stay in the
\* sandbox root (a path may already hold what the failing layer wrote).
LayerOps == {"BlobRequest", "RedirectRequest", "ReadAll", "WriteFile", "Tar"}
LayerFailedAt(j) == log[j].op \in LayerOps /\ ~log[j].ok
LayersBefore(i, p) == {k \in 1..(i - 1) : p \in BlobFiles(manifest[k])}
LastBefore(i, p) == CHOOSE k \in LayersBefore(i, p) : \A n \in LayersBefore(i, p) : n <= k

C12_LayerFailureAborts ==
  \A j \in Positions :
    LayerFailedAt(j) =>
      LET i == log[j].idx IN
      /\ Exited /\ exitCode = 1
      /\ \A k \in Positions : k > j => (log[k].op = "Remove" /\ log[k].idx = i)
      /\ \A k \in Positions : log[k].idx > i => ~(log[k].op \in LayerOps)
      /\ Cardinality({k \in Positions : log[k].op = "BlobRequest" /\ log[k].idx = i}) = 1
      /\ \A p \in LayerPaths :
           LayersBefore(i, p) # {} =>
             /\ fs[Join(chrootDir, p)].kind = "file"
             /\ fs[Join(chrootDir, p)].data \in {manifest[LastBefore(i, p)], manifest[i]}

C12_Witness ==
  /\ Exited
  /\ \E j \in Positions : log[j].op = "Tar" /\ ~log[j].ok /\ log[j].idx = 2
  /\ manifest = <<"L1", "L2">>
  /\ fs[Join(chrootDir, "/bin/x.old")].data = "L1"
  /\ fs[Join(chrootDir, "/bin/x")].data = "L2"

\* C13: the body of an answer with a failing status (here 404), from the
\* blob endpoint or from the redirect's target, is never written to the
\* tarball nor handed to tar: the fetch fails before that.
FailingStatus(status) == status >= 400

C13_FailedResponseNotWritten ==
  /\ \A j \in Positions :
       log[j].op = "WriteFile" => ~FailingStatus(log[j - 1].status)
  /\ \A j \in Positions :
       (log[j].op \in {"BlobRequest", "RedirectRequest"} /\ FailingStatus(log[j].status)) =>
         /\ j = Len(log)
         /\ Exited /\ exitCode = 1
  /\ pc = "fetchLayerTar" => ~FailingStatus(res.status)

\* C14: no stage runs twice: each call of main is made at most once in a
\* run, and each entry of the manifest is asked for, redirected, written and
\* extracted at most once.
Times(op, i) == Cardinality({j \in Positions : log[j].op = op /\ log[j].idx = i})
MainOps == {"MkdirTemp", "TokenRequest", "ManifestRequest", "CopyFile", "DevNull",
            "Chroot", "Start"}

C14_NoStageRetried ==
  /\ \A op \in MainOps : Times(op, 0) <= 1
  /\ Cardinality({j \in Positions : log[j].op = "Wait"}) <= 1
  /\ \A op \in LayerOps \cup {"Remove"} :
       \A i \in 1..Len(manifest) : Times(op, i) <= 1
  /\ \A j \in Positions :
       log[j].op \in LayerOps => log[j].idx \in 1..Len(manifest)

C14_Witness ==
  /\ Exited
  /\ manifest = <<"L1", "L1">>
  /\ Times("Tar", 1) = 1
  /\ Times("Tar", 2) = 1
  /\ Times("Chroot", 0) = 1
  /\ Times("Start", 0) = 1

\* C15: a run passes through INIT, AUTHENTICATED, MANIFEST_RESOLVED,
\* MATERIALIZED, ROOT_PREPARED, ACTIVATED, CHILD_RUNNING, TERMINATED one
\* after the other or goes to FAILED (for a manifest without layers the
\* materialization returns at once, so MATERIALIZED is reached in the step
\* that resolves the manifest); and, every call returning, each run reaches
\* TERMINATED or FAILED.
Stage ==
  IF pc \in {"MkdirTemp", "getBearerToken"} THEN "INIT"
  ELSE IF pc = "fetchManifest" THEN "AUTHENTICATED"
  ELSE IF pc \in {"fetchLayer", "fetchLayerRedirect", "fetchLayerWrite", "fetchLayerTar"}
    THEN "MANIFEST_RESOLVED"
  ELSE IF pc \in {"copyExecutableIntoDir", "createDevNull"} THEN "MATERIALIZED"
  ELSE IF pc = "Chroot" THEN "ROOT_PREPARED"
  ELSE IF pc = "Run" THEN "ACTIVATED"
  ELSE IF pc = "Wait" THEN "CHILD_RUNNING"
  ELSE IF log[Len(log)].op = "Wait" THEN "TERMINATED"
  ELSE "FAILED"

StageOrder ==
  <<"INIT", "AUTHENTICATED", "MANIFEST_RESOLVED", "MATERIALIZED", "ROOT_PREPARED",
    "ACTIVATED", "CHILD_RUNNING", "TERMINATED">>
Rank(stage) == CHOOSE n \in 1..Len(StageOrder) : StageOrder[n] = stage
Final == {"TERMINATED", "FAILED"}

StageStep ==
  \/ Stage' = Stage
  \/ Stage \notin Final /\ Stage' = "FAILED"
  \/ Stage \notin Final /\ Stage' # "FAILED" /\ Rank(Stage') = Rank(Stage) + 1
  \/ /\ Stage = "AUTHENTICATED"
     /\ Stage' = "MATERIALIZED"
     /\ manifest' = <<>>

C15_StagesInOrderAndTermination ==
  /\ [][StageStep]_vars
  /\ <>(Stage \in Final)

C15_Witness ==
  /\ Stage = "TERMINATED"
  /\ Len(manifest) = 2
  /\ child = "exited"
  /\ childStatus = 0

\* C16: when the copy of the executable succeeds in a sandbox root, a file
\* the layers left at the command's path is kept, unchanged, at that path
\* with ".old" appended, and the path holds the host executable's content;
\* when nothing was at the path, what is at the ".old" path does not change
\* (no such file is created). No other path of the root changes.
CopySucceeds == pc = "copyExecutableIntoDir" /\ pc' = "createDevNull" /\ chrootDir = Root

CopyKeepsOld ==
  CopySucceeds =>
    LET dst == Join(chrootDir, command) IN
    /\ fs'[dst].kind = "file"
    /\ fs'[dst].data = HostData
    /\ fs[dst].kind = "file" => fs'[OldPath(dst)] = fs[dst]
    /\ fs[dst].kind = "none" => fs'[OldPath(dst)] = fs[OldPath(dst)]
    /\ \A p \in FsPaths : p \notin {dst, OldPath(dst)} => fs'[p] = fs[p]

C16_CopyKeepsOldFile == [][CopyKeepsOld]_vars

C16_Witness ==
  /\ pc = "createDevNull"
  /\ command = "/bin/x"
  /\ manifest = <<"L1", "L2">>
  /\ fs[Join(Root, "/bin/x")].data = HostData
  /\ fs[Join(Root, "/bin/x.old")].data = "L2"

\* The other case of C16: nothing at the command's path, no ".old" file.
C16_WitnessNoOld ==
  /\ pc = "createDevNull"
  /\ command = "/usr/z"
  /\ fs[Join(Root, "/usr/z")].data = HostData
  /\ fs[Join(Root, "/usr/z.old")].kind = "none"

\* C17: at most one tarball exists at any time; a tarball that fetchLayer
\* wrote exists only until fetchLayer returns, whether tar succeeds or not,
\* so none exists once the root is activated nor when the run ends after a
\* failed extraction. (The only tarball that can outlive fetchLayer is what
\* a failing os.WriteFile left, which fetchLayer did not get written.)
Tarballs == {n \in DOMAIN tmp : tmp[n] # Absent}
WriteFailedLast == log[Len(log)].op = "WriteFile" /\ ~log[Len(log)].ok

C17_TarballsRemoved ==
  /\ Cardinality(Tarballs) <= 1
  /\ Tarballs # {} =>
       \/ pc = "fetchLayerTar" /\ Tarballs = {TarballName(manifest[idx])}
       \/ Exited /\ WriteFailedLast
  /\ Activated => Tarballs = {}
  /\ (Exited /\ \E j \in Positions : log[j].op = "Tar" /\ ~log[j].ok) => Tarballs = {}

C17_Witness ==
  /\ Exited
  /\ exitCode = 1
  /\ manifest = <<"L2", "L2">>
  /\ \E j \in Positions : log[j].op = "Tar" /\ ~log[j].ok /\ log[j].idx = 2
  /\ Tarballs = {}
====
